---- MODULE Spec2Model ----
(***************************************************************************)
(* Model of rostam/homsearch, src/hom.py: graph homomorphism search         *)
(* (extend_hom), core reduction (find_hom_image, check_subcore, find_core), *)
(* the Cayley quotient solver (squash_cube) and the validator (is_hom).     *)
(*                                                                          *)
(* Graphs are undirected and simple: a record [V, E] with E a set of        *)
(* two-element sets of vertices.  Vertices of cube-like graphs are tuples   *)
(* of bits, as CayleyGraph builds them.                                     *)
(***************************************************************************)
EXTENDS Integers, Sequences, FiniteSets, TLC

VARIABLES
  ehG,        \* extend_hom: the source graph G
  ehH,        \* extend_hom: the target graph H
  ehPart,     \* extend_hom: partmap
  ehLimit,    \* extend_hom: limit
  ehPc,       \* extend_hom: "call" before the call, "done" after it
  ehRet,      \* extend_hom: the returned list of maps
  ihG,        \* is_hom: G
  ihH,        \* is_hom: H
  ihHom,      \* is_hom: hom
  ihPc,       \* is_hom: "call" before the call, "done" after it
  ihRet,      \* is_hom: "True", "False" or "AssertionError"
  coreFn,     \* core reduction: the function called ("find_core", "find_hom_image")
  coreG0,     \* core reduction: the argument G
  coreVT,     \* find_core: vertex_trans
  coreCand0,  \* find_hom_image: the argument candidates (None, or a list)
  corePc,     \* core reduction: position
  coreG,      \* find_core: the local G (a graph or None); in find_hom_image the graph searched
  coreGold,   \* find_core: the local Gold
  coreCand,   \* check_subcore / find_hom_image: the candidates not tried yet
  coreOrders, \* find_core: the orders of the graphs the reductions returned, in turn
  coreRet,    \* core reduction: the returned value (a graph or None)
  sqG,        \* squash_cube: the graph G
  sqC,        \* squash_cube: the displacement c
  sqPc,       \* squash_cube: position ("start", "loop", "extend", "done")
  pairs,      \* squash_cube: pairs, vertex -> (v, w)
  chosen,     \* squash_cube: chosen, pair -> 0 or 1
  undecided,  \* squash_cube: set of undecided pairs
  stack,      \* squash_cube: the frames of the recursive extend(), innermost last
  sqRet,      \* squash_cube: the returned value (False, None or a map), or running
  sqStep      \* squash_cube: the last iteration of extend's neighbor loop

ehVars == <<ehG, ehH, ehPart, ehLimit, ehPc, ehRet>>

ihVars == <<ihG, ihH, ihHom, ihPc, ihRet>>

coreVars == <<coreFn, coreG0, coreVT, coreCand0, corePc, coreG, coreGold, coreCand,
              coreOrders, coreRet>>

sqVars == <<sqG, sqC, sqPc, pairs, chosen, undecided, stack, sqRet, sqStep>>

vars == <<ehVars, ihVars, coreVars, sqVars>>

----------------------------------------------------------------------------
(* Bounds of the model *)

\* largest number of generators of a cube-like graph on arbitrary generators
MaxGens == 2
\* largest number of optional generators of a cube-like graph on the unit
\* vectors and optional generators
MaxOpt == 1
\* largest number of vertices of a graph find_core is called on
MaxV == 4
\* largest number of vertices of a graph G that extend_hom, is_hom or
\* find_hom_image is called on
MaxGV == 3
\* largest number of vertices of a target graph H of extend_hom or is_hom
MaxHV == 2
\* largest number of vertices a partmap maps
MaxPart == 2
\* largest limit of extend_hom
MaxLimit == 3
\* longest list of candidates given to find_hom_image
MaxCand == 2

----------------------------------------------------------------------------
(* Graphs (sage Graph, undirected, no loops, no multiple edges) *)

Graph(V, E) == [V |-> V, E |-> E]

Order(G) == Cardinality(G.V)

Size(G) == Cardinality(G.E)

HasEdge(G, u, v) == {u, v} \in G.E

Neighbors(G, v) == {n \in G.V : {v, n} \in G.E}

\* G.subgraph(vertices): the induced subgraph
Subgraph(G, VC) ==
  Graph(G.V \cap VC, {e \in G.E : e \subseteq VC})

\* H = G.copy(); H.delete_vertex(v0)
DeleteVertex(G, v0) ==
  Graph(G.V \ {v0}, {e \in G.E : v0 \notin e})

----------------------------------------------------------------------------
(* GF(2)^n and CayleyGraph *)

Bits == {0, 1}

\* VectorSpace(GF(2), n): tuples of n bits
VectorSpace(n) == [1..n -> Bits]

\* v + c in GF(2)^n
VecAdd(v, c) == [i \in DOMAIN v |-> (v[i] + c[i]) % 2]

\* Z2_2 and Z2_3 of test(), the spaces its cube-like graphs are built over
Z2_2 == VectorSpace(2)

Z2_3 == VectorSpace(3)

\* lexicographic order of tuples, the order of G.vertices()
RECURSIVE LexLess(_, _, _)
LexLess(a, b, i) ==
  IF i > Len(a) THEN FALSE
  ELSE IF a[i] # b[i] THEN a[i] < b[i]
  ELSE LexLess(a, b, i + 1)

\* G.vertices() of a graph on tuples: the sorted list of vertices
RECURSIVE SortedTuples(_)
SortedTuples(S) ==
  IF S = {} THEN <<>>
  ELSE LET m == CHOOSE x \in S : \A y \in S \ {x} : LexLess(x, y, 1)
       IN <<m>> \o SortedTuples(S \ {m})

CayleyGraph(vspace, gens) ==
  Graph(vspace, {{v, VecAdd(v, g)} : v \in vspace, g \in gens})


----------------------------------------------------------------------------
(* The graphs the operations are run on *)

\* the possible edges on V: the two-element subsets
EdgesOn(V) == {e \in SUBSET V : Cardinality(e) = 2}

\* G is a graph on the vertices 0..k-1, for some k <= n
IsGraphUpTo(G, n) ==
  \E k \in 0..n : \E E \in SUBSET EdgesOn(0..(k - 1)) : G = Graph(0..(k - 1), E)

\* graphs.CompleteGraph(n)
CompleteGraph(n) == Graph(0..(n - 1), EdgesOn(0..(n - 1)))

\* graphs.CycleGraph(n)
CycleGraph(n) == Graph(0..(n - 1), {{i, (i + 1) % n} : i \in 0..(n - 1)})

EmptyGraph == Graph({}, {})

EmptyMap == [x \in {} |-> 0]

Range(f) == {f[x] : x \in DOMAIN f}

\* G.vertices() of a graph on integers: the sorted list of vertices
RECURSIVE SortedInts(_)
SortedInts(S) ==
  IF S = {} THEN <<>>
  ELSE LET m == CHOOSE x \in S : \A y \in S : x <= y
       IN <<m>> \o SortedInts(S \ {m})

----------------------------------------------------------------------------
(* extend_hom(G, H, partmap, limit): the backtracking search of hom_c.pyx *)

\* the image x of u agrees with the images of u's mapped neighbors
Consistent(G, H, f, u, x) ==
  \A n \in Neighbors(G, u) \cap DOMAIN f : HasEdge(H, x, f[n])

\* a variant of LimitReached that stops one result late
LimitReachedLate(acc, limit) == limit > 0 /\ Len(acc) > limit

\* limit results are collected (limit 0: no limit)
LimitReached(acc, limit) == limit > 0 /\ Len(acc) >= limit

RECURSIVE Search(_, _, _, _, _)
RECURSIVE TryImages(_, _, _, _, _, _, _)
\* extend the map f to the next unmapped vertex of G, emitting every total map
Search(G, H, f, acc, limit) ==
  IF LimitReached(acc, limit) THEN acc
  ELSE IF DOMAIN f = G.V THEN Append(acc, f)
  ELSE LET u == CHOOSE x \in G.V \ DOMAIN f : \A y \in G.V \ DOMAIN f : x <= y
       IN TryImages(G, H, f, u, SortedInts(H.V), acc, limit)

\* try each vertex of H in turn as the image of u
TryImages(G, H, f, u, imgs, acc, limit) ==
  IF imgs = <<>> \/ LimitReached(acc, limit) THEN acc
  ELSE LET x == Head(imgs)
           acc2 == IF Consistent(G, H, f, u, x)
                   THEN Search(G, H, [y \in DOMAIN f \cup {u} |->
                                        IF y = u THEN x ELSE f[y]], acc, limit)
                   ELSE acc
       IN TryImages(G, H, f, u, Tail(imgs), acc2, limit)

extend_hom(G, H, partmap, limit) == Search(G, H, partmap, <<>>, limit)

\* a partmap as the contract wants it: no edge of G between two mapped vertices
\* is sent to a non-edge of H
ConsistentPart(G, H, p) ==
  \A u, v \in DOMAIN p : HasEdge(G, u, v) => HasEdge(H, p[u], p[v])

PartMaps(G, H) ==
  {p \in UNION {[D -> H.V] : D \in {D \in SUBSET G.V : Cardinality(D) <= MaxPart}} :
     ConsistentPart(G, H, p)}

\* the calls of test(), lines 246-250 and 277
TestCalls ==
  { [G |-> CompleteGraph(4), H |-> CompleteGraph(4), part |-> EmptyMap, limit |-> 100],
    [G |-> CompleteGraph(2), H |-> CompleteGraph(4), part |-> (0 :> 0), limit |-> 10],
    [G |-> CycleGraph(16), H |-> CompleteGraph(2), part |-> EmptyMap, limit |-> 10],
    [G |-> CycleGraph(16), H |-> CompleteGraph(2), part |-> (0 :> 0) @@ (2 :> 1),
     limit |-> 10] }

EhIdle ==
  /\ ehG = EmptyGraph
  /\ ehH = EmptyGraph
  /\ ehPart = EmptyMap
  /\ ehLimit = 0
  /\ ehPc = "idle"
  /\ ehRet = <<>>

ExtendHomStart ==
  /\ \/ \E c \in TestCalls :
          /\ ehG = c.G
          /\ ehH = c.H
          /\ ehPart = c.part
          /\ ehLimit = c.limit
     \/ /\ IsGraphUpTo(ehG, MaxGV)
        /\ IsGraphUpTo(ehH, MaxHV)
        /\ ehPart \in PartMaps(ehG, ehH)
        /\ ehLimit \in 1..MaxLimit
  /\ ehPc = "call"
  /\ ehRet = <<>>

\* maps = extend_hom(G, H, partmap=..., limit=...)
ExtendHomCall ==
  /\ ehPc = "call"
  /\ ehRet' = extend_hom(ehG, ehH, ehPart, ehLimit)
  /\ ehPc' = "done"
  /\ UNCHANGED <<ehG, ehH, ehPart, ehLimit>>
  /\ UNCHANGED <<ihVars, coreVars, sqVars>>

----------------------------------------------------------------------------
(* is_hom(G, H, hom) *)

\* a variant of is_hom without the assertion on the values of hom
is_hom_keys_only(G, H, hom) ==
  IF G.V # DOMAIN hom THEN "AssertionError"
  ELSE IF \E e \in G.E : \E u, v \in e : u # v /\ ~HasEdge(H, hom[u], hom[v])
       THEN "False"
       ELSE "True"

is_hom(G, H, hom) ==
  IF G.V # DOMAIN hom THEN "AssertionError"
  ELSE IF ~(Range(hom) \subseteq H.V) THEN "AssertionError"
  ELSE IF \E e \in G.E : \E u, v \in e : u # v /\ ~HasEdge(H, hom[u], hom[v])
       THEN "False"
       ELSE "True"

\* the maps is_hom is called on: the keys are V(G), V(G) without one vertex, or
\* V(G) and a vertex outside G; the values are vertices of H or one vertex outside H
IsHomMaps(G, H) ==
  LET outG == Cardinality(G.V)
      outH == Cardinality(H.V)
      keys == {G.V, G.V \cup {outG}} \cup {G.V \ {x} : x \in G.V}
  IN UNION {[K -> H.V \cup {outH}] : K \in keys}

IhIdle ==
  /\ ihG = EmptyGraph
  /\ ihH = EmptyGraph
  /\ ihHom = EmptyMap
  /\ ihPc = "idle"
  /\ ihRet = "none"

IsHomStart ==
  /\ IsGraphUpTo(ihG, MaxGV)
  /\ IsGraphUpTo(ihH, MaxHV)
  /\ ihHom \in IsHomMaps(ihG, ihH)
  /\ ihPc = "call"
  /\ ihRet = "none"

\* is_hom(G, H, hom)
IsHomCall ==
  /\ ihPc = "call"
  /\ ihRet' = is_hom(ihG, ihH, ihHom)
  /\ ihPc' = "done"
  /\ UNCHANGED <<ihG, ihH, ihHom>>
  /\ UNCHANGED <<ehVars, coreVars, sqVars>>


----------------------------------------------------------------------------
(* find_hom_image, check_subcore, find_core *)

\* a value that is a graph or None
None == [isNone |-> TRUE, g |-> EmptyGraph]

Some(g) == [isNone |-> FALSE, g |-> g]

\* candidates: None, or a list of vertices
NoCandidates == [isNone |-> TRUE, list |-> <<>>]

Candidates(l) == [isNone |-> FALSE, list |-> l]

\* the truth value of a graph or None in `while G:` (a sage graph is false
\* when it has no vertices)
Truthy(x) == ~x.isNone /\ Order(x.g) > 0

\* the complete-graph test of find_core
IsComplete(G) == Size(G) = (Order(G) * (Order(G) - 1)) \div 2

\* a variant of ImageSubgraph on the keys of the map instead of its values
KeysSubgraph(G, hom) == Subgraph(G, DOMAIN hom)

\* the induced subgraph on the image of a map
ImageSubgraph(G, hom) == Subgraph(G, Range(hom))

\* the body of the candidate loop of find_hom_image and check_subcore:
\* the subgraph on the image of a homomorphism G -> G minus v0, or None
TryVertex(G, v0) ==
  LET H == DeleteVertex(G, v0)
      maps == extend_hom(G, H, EmptyMap, 1)
  IN IF Len(maps) >= 1 THEN Some(ImageSubgraph(G, maps[1])) ELSE None

\* a variant of DefaultCandidates that ignores the candidates given
AllCandidates(G, cand) == SortedInts(G.V)

\* candidates defaults to G.vertices()
DefaultCandidates(G, cand) ==
  IF cand.isNone THEN SortedInts(G.V) ELSE cand.list

\* a variant of Rem0 that takes every graph for vertex-transitive
Rem0First(G, vertex_trans) == Candidates(SubSeq(SortedInts(G.V), 1, 1))

\* rem0 of find_core
Rem0(G, vertex_trans) ==
  IF vertex_trans THEN Candidates(SubSeq(SortedInts(G.V), 1, 1)) ELSE NoCandidates

RECURSIVE SeqsUpTo(_, _)
\* the lists of at most n elements of S
SeqsUpTo(S, n) ==
  IF n = 0 THEN {<<>>}
  ELSE LET shorter == SeqsUpTo(S, n - 1)
       IN shorter \cup {Append(l, x) : l \in shorter, x \in S}

CoreIdle ==
  /\ coreFn = "idle"
  /\ coreG0 = EmptyGraph
  /\ coreVT = FALSE
  /\ coreCand0 = NoCandidates
  /\ corePc = "idle"
  /\ coreG = None
  /\ coreGold = EmptyGraph
  /\ coreCand = <<>>
  /\ coreOrders = <<>>
  /\ coreRet = None

CoreStart ==
  /\ \/ /\ coreFn = "find_core"
        /\ IsGraphUpTo(coreG0, MaxV)
        /\ coreVT \in BOOLEAN
        /\ coreCand0 = NoCandidates
     \/ /\ coreFn = "find_hom_image"
        /\ IsGraphUpTo(coreG0, MaxGV)
        /\ coreVT = FALSE
        /\ coreCand0 \in {NoCandidates} \cup {Candidates(l) : l \in SeqsUpTo(coreG0.V, MaxCand)}
  /\ corePc = "start"
  /\ coreG = Some(coreG0)
  /\ coreGold = coreG0
  /\ coreCand = <<>>
  /\ coreOrders = <<>>
  /\ coreRet = None

\* find_core, line 108-109: a complete graph is returned as it is
FindCoreComplete ==
  /\ corePc = "start" /\ coreFn = "find_core"
  /\ IsComplete(coreG0)
  /\ coreRet' = Some(coreG0)
  /\ corePc' = "done"
  /\ UNCHANGED <<coreFn, coreG0, coreVT, coreCand0, coreG, coreGold, coreCand, coreOrders>>
  /\ UNCHANGED <<ehVars, ihVars, sqVars>>

\* find_core, lines 110-114, and check_subcore, lines 88-89: the call of check_subcore
FindCoreStart ==
  /\ corePc = "start" /\ coreFn = "find_core"
  /\ ~IsComplete(coreG0)
  /\ coreGold' = coreG0
  /\ coreCand' = DefaultCandidates(coreG0, Rem0(coreG0, coreVT))
  /\ corePc' = "check_subcore"
  /\ UNCHANGED <<coreFn, coreG0, coreVT, coreCand0, coreG, coreOrders, coreRet>>
  /\ UNCHANGED <<ehVars, ihVars, sqVars>>

\* find_hom_image, lines 70-71, called on its own
FindHomImageStart ==
  /\ corePc = "start" /\ coreFn = "find_hom_image"
  /\ coreCand' = DefaultCandidates(coreG0, coreCand0)
  /\ corePc' = "find_hom_image"
  /\ UNCHANGED <<coreFn, coreG0, coreVT, coreCand0, coreG, coreGold, coreOrders, coreRet>>
  /\ UNCHANGED <<ehVars, ihVars, sqVars>>

\* check_subcore, lines 91-98, and find_hom_image, lines 72-79: one candidate
TryCandidate ==
  /\ corePc \in {"check_subcore", "find_hom_image"}
  /\ coreCand # <<>>
  /\ LET r == TryVertex(coreG.g, Head(coreCand))
     IN IF r.isNone
        THEN /\ coreCand' = Tail(coreCand)
             /\ UNCHANGED <<corePc, coreG, coreOrders, coreRet>>
        ELSE IF coreFn = "find_core"
             THEN \* G = check_subcore(...) or G = find_hom_image(G)
                  /\ coreG' = r
                  /\ coreOrders' = Append(coreOrders, Order(r.g))
                  /\ corePc' = "while"
                  /\ UNCHANGED <<coreCand, coreRet>>
             ELSE /\ coreRet' = r
                  /\ corePc' = "done"
                  /\ UNCHANGED <<coreCand, coreG, coreOrders>>
  /\ UNCHANGED <<coreFn, coreG0, coreVT, coreCand0, coreGold>>
  /\ UNCHANGED <<ehVars, ihVars, sqVars>>

\* check_subcore, line 99, and find_hom_image, line 80: no candidate is left
NoCandidateLeft ==
  /\ corePc \in {"check_subcore", "find_hom_image"}
  /\ coreCand = <<>>
  /\ IF coreFn = "find_core"
     THEN /\ coreG' = None
          /\ corePc' = "while"
          /\ UNCHANGED coreRet
     ELSE /\ coreRet' = None
          /\ corePc' = "done"
          /\ UNCHANGED coreG
  /\ UNCHANGED <<coreFn, coreG0, coreVT, coreCand0, coreGold, coreCand, coreOrders>>
  /\ UNCHANGED <<ehVars, ihVars, sqVars>>

\* find_core, lines 115-117: Gold = G; the call find_hom_image(G)
WhileBody ==
  /\ corePc = "while"
  /\ Truthy(coreG)
  /\ coreGold' = coreG.g
  /\ coreCand' = DefaultCandidates(coreG.g, NoCandidates)
  /\ corePc' = "find_hom_image"
  /\ UNCHANGED <<coreFn, coreG0, coreVT, coreCand0, coreG, coreOrders, coreRet>>
  /\ UNCHANGED <<ehVars, ihVars, sqVars>>

\* find_core, line 118: return Gold
FindCoreReturn ==
  /\ corePc = "while"
  /\ ~Truthy(coreG)
  /\ coreRet' = Some(coreGold)
  /\ corePc' = "done"
  /\ UNCHANGED <<coreFn, coreG0, coreVT, coreCand0, coreG, coreGold, coreCand, coreOrders>>
  /\ UNCHANGED <<ehVars, ihVars, sqVars>>

----------------------------------------------------------------------------
(* squash_cube(G, c) *)

\* a variant of ContractsPair that tests (v, v) for (v, w)
ContractsPairSelf(G, v, w) == HasEdge(G, v, v)

\* the test of the pairing loop: (v, v+c) is an edge, which would be contracted
ContractsPair(G, v, w) == HasEdge(G, v, w)

\* the loop building `pairs` (vertex -> pair) over G.vertices(); ok is FALSE
\* when the loop returns False because (v, v+c) is an edge
RECURSIVE PairLoop(_, _, _, _, _)
PairLoop(G, c, vs, i, ps) ==
  IF i > Len(vs) THEN [ok |-> TRUE, pairs |-> ps]
  ELSE LET v == vs[i]
           w == VecAdd(v, c)
       IN IF ContractsPair(G, v, w) THEN [ok |-> FALSE, pairs |-> ps]
          ELSE IF w \in DOMAIN ps \/ v \in DOMAIN ps
               THEN PairLoop(G, c, vs, i + 1, ps)
               ELSE PairLoop(G, c, vs, i + 1,
                      [x \in DOMAIN ps \cup {v, w} |->
                         IF x \in {v, w} THEN <<v, w>> ELSE ps[x]])

\* np.index(n)
PairIndex(np, n) == IF np[1] = n THEN 0 ELSE 1

\* pair[sel] with python's 0-based index
PairAt(pair, sel) == pair[sel + 1]

\* a variant of NoConstraint with the test inverted
NoConstraintInverted(G, n, w) == ~HasEdge(G, n, w)

\* a variant of NoConstraint that tests n's partner n+c instead of n
NoConstraintPartner(G, n, w) == HasEdge(G, VecAdd(n, sqC), w)

\* the test of the neighbor loop that skips a neighbor n: G.has_edge(n, w)
NoConstraint(G, n, w) == HasEdge(G, n, w)

\* a variant of Inconsistent that never finds an inconsistency
InconsistentNever(ch, pair, sel) == FALSE

\* the test at the entry of extend() on a pair that is already chosen
Inconsistent(ch, pair, sel) == ch[pair] # sel

\* the hom-map built from chosen
BuildHom(ch) ==
  [x \in UNION {{p[1], p[2]} : p \in DOMAIN ch} |->
     LET p == CHOOSE q \in DOMAIN ch : x \in {q[1], q[2]}
     IN PairAt(p, ch[p])]

Running == [kind |-> "running", hom |-> EmptyMap]

NoStep == [act |-> "none", pair |-> <<>>, sel |-> 0, n |-> <<>>]

\* a variant of Call that leaves the pair in undecided
CallKeepsUndecided(pair, sel, stk, step) ==
  IF pair \in DOMAIN chosen
  THEN IF Inconsistent(chosen, pair, sel)
       THEN \* extend returns False, and so does every frame; squash_cube returns None
            /\ sqRet' = [kind |-> "None", hom |-> EmptyMap]
            /\ sqPc' = "done"
            /\ stack' = <<>>
            /\ sqStep' = [step EXCEPT !.act = "conflict"]
            /\ UNCHANGED <<chosen, undecided>>
       ELSE /\ stack' = stk
            /\ sqPc' = IF stk = <<>> THEN "loop" ELSE "extend"
            /\ sqStep' = [step EXCEPT !.act = "same"]
            /\ UNCHANGED <<chosen, undecided, sqRet>>
  ELSE /\ chosen' = [q \in DOMAIN chosen \cup {pair} |->
                       IF q = pair THEN sel ELSE chosen[q]]
       /\ undecided' = undecided
       /\ stack' = Append(stk, [pair |-> pair, sel |-> sel,
                                todo |-> Neighbors(sqG, PairAt(pair, sel))])
       /\ sqPc' = "extend"
       /\ sqStep' = [step EXCEPT !.act = "new"]
       /\ UNCHANGED sqRet

\* a call extend(pair, sel) made with the frames stk below it
Call(pair, sel, stk, step) ==
  IF pair \in DOMAIN chosen
  THEN IF Inconsistent(chosen, pair, sel)
       THEN \* extend returns False, and so does every frame; squash_cube returns None
            /\ sqRet' = [kind |-> "None", hom |-> EmptyMap]
            /\ sqPc' = "done"
            /\ stack' = <<>>
            /\ sqStep' = [step EXCEPT !.act = "conflict"]
            /\ UNCHANGED <<chosen, undecided>>
       ELSE /\ stack' = stk
            /\ sqPc' = IF stk = <<>> THEN "loop" ELSE "extend"
            /\ sqStep' = [step EXCEPT !.act = "same"]
            /\ UNCHANGED <<chosen, undecided, sqRet>>
  ELSE /\ chosen' = [q \in DOMAIN chosen \cup {pair} |->
                       IF q = pair THEN sel ELSE chosen[q]]
       /\ undecided' = undecided \ {pair}
       /\ stack' = Append(stk, [pair |-> pair, sel |-> sel,
                                todo |-> Neighbors(sqG, PairAt(pair, sel))])
       /\ sqPc' = "extend"
       /\ sqStep' = [step EXCEPT !.act = "new"]
       /\ UNCHANGED sqRet

\* lines 130-143: build the pairs, or return False on an edge (v, v+c)
SquashStart ==
  /\ sqPc = "start"
  /\ LET r == PairLoop(sqG, sqC, SortedTuples(sqG.V), 1, EmptyMap)
     IN IF r.ok
        THEN /\ pairs' = r.pairs
             /\ undecided' = Range(r.pairs)
             /\ sqPc' = "loop"
             /\ UNCHANGED sqRet
        ELSE /\ sqRet' = [kind |-> "False", hom |-> EmptyMap]
             /\ sqPc' = "done"
             /\ UNCHANGED <<pairs, undecided>>
  /\ UNCHANGED <<sqG, sqC, chosen, stack, sqStep>>
  /\ UNCHANGED <<ehVars, ihVars, coreVars>>

\* lines 169-172: p = undecided.pop(); extend(p, 0)
SquashPop ==
  /\ sqPc = "loop"
  /\ undecided # {}
  /\ \E p \in undecided :
       LET und == undecided \ {p}
       IN IF p \in DOMAIN chosen
          THEN IF Inconsistent(chosen, p, 0)
               THEN /\ sqRet' = [kind |-> "None", hom |-> EmptyMap]
                    /\ sqPc' = "done"
                    /\ undecided' = und
                    /\ UNCHANGED <<chosen, stack>>
               ELSE /\ undecided' = und
                    /\ UNCHANGED <<chosen, stack, sqRet, sqPc>>
          ELSE /\ chosen' = [q \in DOMAIN chosen \cup {p} |->
                               IF q = p THEN 0 ELSE chosen[q]]
               /\ undecided' = und
               /\ stack' = <<[pair |-> p, sel |-> 0,
                              todo |-> Neighbors(sqG, PairAt(p, 0))]>>
               /\ sqPc' = "extend"
               /\ UNCHANGED sqRet
  /\ sqStep' = NoStep
  /\ UNCHANGED <<sqG, sqC, pairs>>
  /\ UNCHANGED <<ehVars, ihVars, coreVars>>

\* lines 160-166: one iteration of the neighbor loop of the innermost extend()
ExtendNeighbor ==
  /\ sqPc = "extend"
  /\ LET top == stack[Len(stack)]
         w   == PairAt(top.pair, 1 - top.sel)
     IN \E n \in top.todo :
          LET stk  == [stack EXCEPT ![Len(stack)].todo = top.todo \ {n}]
              np   == pairs[n]
              ni   == PairIndex(np, n)
              step == [act |-> "skip", pair |-> top.pair, sel |-> top.sel, n |-> n]
          IN IF NoConstraint(sqG, n, w)
             THEN /\ stack' = stk
                  /\ sqStep' = step
                  /\ UNCHANGED <<chosen, undecided, sqRet, sqPc>>
             ELSE Call(np, ni, stk, step)
  /\ UNCHANGED <<sqG, sqC, pairs>>
  /\ UNCHANGED <<ehVars, ihVars, coreVars>>

\* line 167: the neighbor loop is over, extend() returns True
ExtendReturn ==
  /\ sqPc = "extend"
  /\ stack[Len(stack)].todo = {}
  /\ stack' = SubSeq(stack, 1, Len(stack) - 1)
  /\ sqPc' = IF Len(stack) = 1 THEN "loop" ELSE "extend"
  /\ sqStep' = NoStep
  /\ UNCHANGED <<sqG, sqC, pairs, chosen, undecided, sqRet>>
  /\ UNCHANGED <<ehVars, ihVars, coreVars>>

\* lines 173-178: undecided is empty, build and return the hom-map
SquashBuild ==
  /\ sqPc = "loop"
  /\ undecided = {}
  /\ sqRet' = [kind |-> "map", hom |-> BuildHom(chosen)]
  /\ sqPc' = "done"
  /\ sqStep' = NoStep
  /\ UNCHANGED <<sqG, sqC, pairs, chosen, undecided, stack>>
  /\ UNCHANGED <<ehVars, ihVars, coreVars>>

\* the nonzero vectors of a space: the generators and the displacements
NonZero(vs) == {v \in vs : \E i \in DOMAIN v : v[i] = 1}

\* vs.gens() of nonisomorphic_cubes_Z2: the unit vectors
BaseGens(vs) == {v \in vs : Cardinality({i \in DOMAIN v : v[i] = 1}) = 1}

\* optgens of nonisomorphic_cubes_Z2: the vectors with two or more ones
OptGens(vs) == {v \in vs : Cardinality({i \in DOMAIN v : v[i] = 1}) >= 2}

\* the generator sets of the cube-like graphs: a few arbitrary generators, or,
\* as nonisomorphic_cubes_Z2 builds them, the unit vectors and optional ones
GenSets(vs) ==
  {gs \in SUBSET NonZero(vs) : Cardinality(gs) <= MaxGens}
    \cup {BaseGens(vs) \cup g : g \in {g \in SUBSET OptGens(vs) : Cardinality(g) <= MaxOpt}}

SqIdle ==
  /\ sqG = EmptyGraph
  /\ sqC = <<>>
  /\ sqPc = "idle"
  /\ pairs = EmptyMap
  /\ chosen = EmptyMap
  /\ undecided = {}
  /\ stack = <<>>
  /\ sqRet = Running
  /\ sqStep = NoStep

SquashStartState ==
  /\ \E vs \in {Z2_2, Z2_3} :
       /\ sqG \in {CayleyGraph(vs, gs) : gs \in GenSets(vs)}
       /\ sqC \in NonZero(vs)
  /\ sqPc = "start"
  /\ pairs = EmptyMap
  /\ chosen = EmptyMap
  /\ undecided = {}
  /\ stack = <<>>
  /\ sqRet = Running
  /\ sqStep = NoStep

SquashInit == SquashStartState /\ EhIdle /\ IhIdle /\ CoreIdle

SquashNext ==
  \/ SquashStart
  \/ SquashPop
  \/ ExtendNeighbor
  \/ ExtendReturn
  \/ SquashBuild

SpecSquash == SquashInit /\ [][SquashNext]_vars

----------------------------------------------------------------------------
(* The specifications of the other operations *)

ExtendHomNext == ExtendHomCall

ExtendHomInit == ExtendHomStart /\ IhIdle /\ CoreIdle /\ SqIdle

SpecExtendHom == ExtendHomInit /\ [][ExtendHomNext]_vars

IsHomNext == IsHomCall

IsHomInit == IsHomStart /\ EhIdle /\ CoreIdle /\ SqIdle

SpecIsHom == IsHomInit /\ [][IsHomNext]_vars

CoreNext ==
  \/ FindCoreComplete
  \/ FindCoreStart
  \/ FindHomImageStart
  \/ TryCandidate
  \/ NoCandidateLeft
  \/ WhileBody
  \/ FindCoreReturn

CoreInit == CoreStart /\ EhIdle /\ IhIdle /\ SqIdle

SpecCore == CoreInit /\ [][CoreNext]_vars

----------------------------------------------------------------------------
(* What a homomorphism is, stated without the program *)

\* f sends every edge of G to an edge of H
PreservesEdges(G, H, f) == \A e \in G.E : {f[x] : x \in e} \in H.E

\* the homomorphisms G -> H that extend the partial map p
HomsExtending(G, H, p) ==
  {f \in [G.V -> H.V] : (\A x \in DOMAIN p : f[x] = p[x]) /\ PreservesEdges(G, H, f)}

HomExists(G, H) == \E f \in [G.V -> H.V] : PreservesEdges(G, H, f)

\* the sets S of survivors, one of v and v+c for every vertex v
Selections(G, c) ==
  {S \in SUBSET G.V : \A v \in G.V : (v \in S) # (VecAdd(v, c) \in S)}

\* the map a set of survivors induces
SelectionMap(G, c, S) == [v \in G.V |-> IF v \in S THEN v ELSE VecAdd(v, c)]

\* a selection whose map is a homomorphism of G to the subgraph on its image
ConsistentSelection(G, c, S) ==
  PreservesEdges(G, Subgraph(G, S), SelectionMap(G, c, S))

ContractsEdge(G, c) == \E v \in G.V : HasEdge(G, v, VecAdd(v, c))

\* the 4-cycle of test(): CayleyGraph(Z2_2, [(1,0), (0,1)])
Ge == CayleyGraph(Z2_2, {<<1, 0>>, <<0, 1>>})

----------------------------------------------------------------------------
(* Claims on squash_cube, under SpecSquash *)

\* C5: a map h returned by squash_cube is total on V(G), has h(v) = h(v+c) and
\* h(v) in {v, v+c} for every vertex v, and is a homomorphism from G to the
\* subgraph induced by its image; on the 4-cycle Ge with c = (1,1) the call
\* returns a map whose image induces K2.
C5_SquashMapIsHom ==
  /\ sqRet.kind = "map" =>
       LET h == sqRet.hom
           img == ImageSubgraph(sqG, h)
       IN /\ DOMAIN h = sqG.V
          /\ \A v \in sqG.V : h[v] = h[VecAdd(v, sqC)] /\ h[v] \in {v, VecAdd(v, sqC)}
          /\ PreservesEdges(sqG, img, h)
          /\ is_hom(sqG, img, h) = "True"
  /\ (sqPc = "done" /\ sqG = Ge /\ sqC = <<1, 1>>) =>
       /\ sqRet.kind = "map"
       /\ Order(ImageSubgraph(sqG, sqRet.hom)) = 2
       /\ Size(ImageSubgraph(sqG, sqRet.hom)) = 1

\* a map is returned in which propagation forced the second element of a pair
C5_Witness ==
  /\ sqRet.kind = "map"
  /\ sqG.E # {}
  /\ \E q \in DOMAIN chosen : chosen[q] = 1

RECURSIVE Propagate(_, _, _, _)
Propagate(G, prs, ch, work) ==
  IF work = {} THEN [ok |-> TRUE, chosen |-> ch]
  ELSE LET d == CHOOSE x \in work : TRUE
       IN IF d.pair \in DOMAIN ch
          THEN IF Inconsistent(ch, d.pair, d.sel)
               THEN [ok |-> FALSE, chosen |-> ch]
               ELSE Propagate(G, prs, ch, work \ {d})
          ELSE LET v == PairAt(d.pair, d.sel)
                   w == PairAt(d.pair, 1 - d.sel)
                   forced == {[pair |-> prs[n], sel |-> PairIndex(prs[n], n)] :
                                n \in {m \in Neighbors(G, v) : ~NoConstraint(G, m, w)}}
               IN Propagate(G, prs,
                            [q \in DOMAIN ch \cup {d.pair} |->
                               IF q = d.pair THEN d.sel ELSE ch[q]],
                            (work \ {d}) \cup forced)

\* C8: not backtracking is sound: squash_cube returns None only if no selection
\* of a survivor in every pair induces a homomorphism, and at every iteration
\* of the outer loop, for every undecided pair, forcing from choice 0 reaches an
\* inconsistency exactly when forcing from choice 1 does.
C8_NoBacktrackSound ==
  /\ sqRet.kind = "None" =>
       \A S \in Selections(sqG, sqC) : ~ConsistentSelection(sqG, sqC, S)
  /\ (sqPc = "loop" /\ undecided # {}) =>
       \A p \in undecided :
         Propagate(sqG, pairs, chosen, {[pair |-> p, sel |-> 0]}).ok
           = Propagate(sqG, pairs, chosen, {[pair |-> p, sel |-> 1]}).ok

\* None is returned after an earlier pair was settled without a contradiction
C8_Witness ==
  /\ sqRet.kind = "None"
  /\ ~ContractsEdge(sqG, sqC)
  /\ Cardinality(DOMAIN chosen) >= 2

\* the effect of one iteration of the neighbor loop, on neighbor n of the
\* survivor v of the pair being extended, given whether n is skipped
NeighborStep(skipped) ==
  LET n  == sqStep'.n
      np == pairs[n]
      ni == PairIndex(np, n)
  IN /\ n \in Neighbors(sqG, PairAt(sqStep'.pair, sqStep'.sel))
     /\ IF skipped
        THEN \* no new constraint
             chosen' = chosen /\ sqRet' = sqRet /\ Len(stack') = Len(stack)
        ELSE IF np \notin DOMAIN chosen
        THEN \* n's pair is forced to select n, recursively
             /\ DOMAIN chosen' = DOMAIN chosen \cup {np}
             /\ chosen'[np] = ni
             /\ \A q \in DOMAIN chosen : chosen'[q] = chosen[q]
             /\ Len(stack') = Len(stack) + 1
             /\ stack'[Len(stack')].pair = np
             /\ stack'[Len(stack')].todo = Neighbors(sqG, n)
        ELSE IF chosen[np] = ni
        THEN \* forcing the same choice again is a no-op
             chosen' = chosen /\ sqRet' = sqRet /\ Len(stack') = Len(stack)
        ELSE \* forcing a different choice is a failure
             sqRet'.kind = "None" /\ sqPc' = "done"

\* C9 as amended: in the propagation step for a pair with survivor v and
\* non-surviving w, for a neighbor n of v: if n itself is adjacent to w no new
\* constraint is forced; otherwise n's pair is forced to select n, recursively,
\* which fails on a pair selected differently and is a no-op on one selected alike.
C9_PropagationStep ==
  [][sqStep'.act # "none" =>
       NeighborStep(HasEdge(sqG, sqStep'.n,
                            PairAt(sqStep'.pair, 1 - sqStep'.sel)))]_vars

\* C9 as claimed: no new constraint is forced if n's partner n+c is adjacent to w
C9_AsClaimed ==
  [][sqStep'.act # "none" =>
       NeighborStep(HasEdge(sqG, VecAdd(sqStep'.n, sqC),
                            PairAt(sqStep'.pair, 1 - sqStep'.sel)))]_vars

\* a neighbor was skipped, and a neighbor's pair was newly forced
C9_Witness ==
  /\ sqStep.act = "new"
  /\ Len(stack) >= 2
  /\ \E m \in Neighbors(sqG, PairAt(stack[1].pair, stack[1].sel)) :
       HasEdge(sqG, m, PairAt(stack[1].pair, 1 - stack[1].sel))

\* the outcome the graph and the displacement determine
OutcomeKind(G, c) ==
  IF ContractsEdge(G, c) THEN "False"
  ELSE IF \E S \in Selections(G, c) : ConsistentSelection(G, c, S) THEN "map"
  ELSE "None"

\* C10: the kind of outcome is a function of G and c alone, whatever the order
\* of the pops and of the neighbors, and at every iteration of the outer loop
\* each pair is in exactly one of chosen and undecided.
C10_OrderIndependent ==
  /\ sqPc = "done" => sqRet.kind = OutcomeKind(sqG, sqC)
  /\ sqPc = "loop" =>
       /\ DOMAIN chosen \cap undecided = {}
       /\ DOMAIN chosen \cup undecided = Range(pairs)

\* an outer-loop iteration after the first, with pairs settled and pairs left
C10_Witness ==
  /\ sqPc = "loop"
  /\ DOMAIN chosen # {}
  /\ undecided # {}
  /\ sqG.E # {}


----------------------------------------------------------------------------
(* Claims on extend_hom, under SpecExtendHom *)

MinOf(a, b) == IF a <= b THEN a ELSE b

\* C1: for a consistent partmap p and limit >= 1, extend_hom returns pairwise
\* distinct total maps V(G) -> V(H) that agree with p and send every edge of G
\* to an edge of H, and returns min(limit, N) of them, N the number of
\* homomorphisms G -> H extending p; the calls of test() return 24, 3, 2 and 0 maps.
C1_ExtendHomResult ==
  ehPc = "done" =>
    LET all == HomsExtending(ehG, ehH, ehPart)
    IN /\ \A i, j \in 1..Len(ehRet) : i # j => ehRet[i] # ehRet[j]
       /\ \A i \in 1..Len(ehRet) : ehRet[i] \in all
       /\ Len(ehRet) = MinOf(ehLimit, Cardinality(all))
       /\ (ehRet = <<>>) <=> (all = {})
       /\ (ehG = CompleteGraph(4) /\ ehH = CompleteGraph(4) /\ ehLimit = 100)
            => Len(ehRet) = 24
       /\ (ehG = CompleteGraph(2) /\ ehH = CompleteGraph(4) /\ ehLimit = 10)
            => Len(ehRet) = 3
       /\ (ehG = CycleGraph(16) /\ ehLimit = 10)
            => Len(ehRet) = IF DOMAIN ehPart = {} THEN 2 ELSE 0

\* the limit cuts the list short of the homomorphisms that extend a partmap
C1_Witness ==
  /\ ehPc = "done"
  /\ DOMAIN ehPart # {}
  /\ Len(ehRet) = ehLimit
  /\ Len(ehRet) >= 2
  /\ Cardinality(HomsExtending(ehG, ehH, ehPart)) > ehLimit

----------------------------------------------------------------------------
(* Claims on is_hom, under SpecIsHom *)

\* C7: is_hom raises when the keys of hom are not exactly V(G) or a value of
\* hom is no vertex of H, whatever the edges; otherwise it returns False when
\* some edge of G is not sent to an edge of H (as when two adjacent vertices
\* are sent to one vertex) and True when every edge is.
C7_IsHomOutcome ==
  ihPc = "done" =>
    LET keysOk == DOMAIN ihHom = ihG.V
        valsOk == \A x \in DOMAIN ihHom : ihHom[x] \in ihH.V
    IN /\ ihRet \in {"AssertionError", "False", "True"}
       /\ ihRet = "AssertionError" <=> ~(keysOk /\ valsOk)
       /\ (keysOk /\ valsOk) =>
            /\ ihRet = "True" <=> PreservesEdges(ihG, ihH, ihHom)
            /\ (\E e \in ihG.E : \E u, v \in e : u # v /\ ihHom[u] = ihHom[v])
                 => ihRet = "False"

\* two adjacent vertices are sent to one vertex of H, and is_hom returns False
C7_Witness ==
  /\ ihPc = "done"
  /\ ihRet = "False"
  /\ DOMAIN ihHom = ihG.V
  /\ \E e \in ihG.E : \E u, v \in e : u # v /\ ihHom[u] = ihHom[v]

----------------------------------------------------------------------------
(* Claims on the core reduction, under SpecCore and SpecCoreFair *)

\* C2: find_core(G, vertex_trans=False) returns an induced subgraph C of G
\* with a homomorphism G -> C and, for no vertex v of C, a homomorphism
\* C -> C minus v; a complete G is returned as it is, without any search.
C2_FindCoreIsCore ==
  (corePc = "done" /\ coreFn = "find_core" /\ ~coreVT) =>
    LET C == coreRet.g
    IN /\ ~coreRet.isNone
       /\ C.V \subseteq coreG0.V
       /\ C = Subgraph(coreG0, C.V)
       /\ HomExists(coreG0, C)
       /\ \A v \in C.V : ~HomExists(C, DeleteVertex(C, v))
       /\ Size(coreG0) * 2 = Order(coreG0) * (Order(coreG0) - 1)
            => C = coreG0 /\ coreOrders = <<>> /\ coreCand = <<>>

\* find_core returned a proper subgraph of G
C2_Witness ==
  /\ corePc = "done" /\ coreFn = "find_core" /\ ~coreVT
  /\ coreRet.g # coreG0
  /\ coreRet.g.E # {}

\* the candidates find_hom_image was called with, in order
GivenCandidates ==
  IF coreCand0.isNone THEN SortedInts(coreG0.V) ELSE coreCand0.list

Admits(v) == HomExists(coreG0, DeleteVertex(coreG0, v))

\* C3: find_hom_image returns, for the first candidate v with a homomorphism
\* G -> G minus v, the subgraph induced by the image of such a homomorphism,
\* which leaves out v and has fewer vertices than G; it returns None exactly
\* when no candidate admits one; without candidates, every vertex is one.
C3_FindHomImage ==
  (corePc = "done" /\ coreFn = "find_hom_image") =>
    LET cs == GivenCandidates
    IN /\ coreRet.isNone <=> \A i \in 1..Len(cs) : ~Admits(cs[i])
       /\ coreCand0.isNone => {cs[i] : i \in 1..Len(cs)} = coreG0.V
       /\ ~coreRet.isNone =>
            \E i \in 1..Len(cs) :
              /\ Admits(cs[i])
              /\ \A j \in 1..(i - 1) : ~Admits(cs[j])
              /\ \E f \in HomsExtending(coreG0, DeleteVertex(coreG0, cs[i]), EmptyMap) :
                   coreRet.g = Subgraph(coreG0, Range(f))
              /\ cs[i] \notin coreRet.g.V
              /\ Order(coreRet.g) < Order(coreG0)

\* the first candidate given admits no homomorphism and a later one does
C3_Witness ==
  /\ corePc = "done" /\ coreFn = "find_hom_image"
  /\ ~coreCand0.isNone
  /\ ~coreRet.isNone
  /\ ~Admits(coreCand0.list[1])

\* the orders of the graphs of find_core's loop: G, then what each reduction returned
OrdersSeen == <<Order(coreG0)>> \o coreOrders

ReductionsDecrease ==
  /\ \A i \in 2..Len(OrdersSeen) : OrdersSeen[i] < OrdersSeen[i - 1] /\ OrdersSeen[i] >= 1
  /\ Len(coreOrders) <= Order(coreG0)

\* a measure of the work left: the order of the graph being searched, then the
\* candidates left to try
WorkLeft ==
  LET base(n) == n * (Order(coreG0) + 2)
      longest == IF Len(coreCand0.list) > Order(coreG0)
                 THEN Len(coreCand0.list) ELSE Order(coreG0)
  IN CASE corePc = "done" -> 0
       [] corePc = "start" -> base(Order(coreG0)) + longest + 3
       [] corePc = "while" ->
            IF coreG.isNone THEN 1 ELSE base(Order(coreG.g)) + Order(coreG.g) + 3
       [] OTHER -> base(Order(coreG.g)) + Len(coreCand) + 2

\* C4: every successful reduction of find_core returns a graph with fewer
\* vertices than the current one and at least one vertex, there are at most
\* order(G) of them, and the loop ends: every step leaves less work to do.
C4_FindCoreTerminates ==
  /\ [](coreFn = "find_core" => ReductionsDecrease)
  /\ [](WorkLeft >= 0 /\ (WorkLeft = 0 <=> corePc = "done"))
  /\ [][WorkLeft' < WorkLeft]_vars

\* find_core made a reduction and returned
C4_Witness ==
  /\ coreFn = "find_core"
  /\ corePc = "done"
  /\ Len(coreOrders) >= 1


====
